---- MODULE Spec2Model ----
(***************************************************************************)
(* Model of url_Shortener/url_shortener.py: the three FastAPI handlers     *)
(* shorten_url, redirect_url and get_analytics running against the two     *)
(* SQLite tables urls and logs created by init_db.                         *)
(*                                                                         *)
(* Every handler opens its own sqlite3 connection, so the handlers of      *)
(* different requests (one per worker process) interleave statement by     *)
(* statement.  A SELECT reads the committed tables.  The first INSERT of a *)
(* handler opens sqlite3's implicit transaction and takes the database     *)
(* write lock; what the transaction writes goes to a private working copy  *)
(* (tx) that conn.commit() publishes.  A handler whose INSERT finds the     *)
(* lock taken waits for it.                                                *)
(*                                                                         *)
(* A URL is the string original_url holds after line 90; two URLs are      *)
(* equal when those strings are.                                           *)
(*                                                                         *)
(* Time is counted in ticks, TicksPerSec ticks to the second.  The clock   *)
(* datetime.utcnow() has sub-second resolution, while every timestamp the  *)
(* code stores goes through strftime("%Y-%m-%d %H:%M:%S"), which drops the *)
(* fraction of the second.                                                 *)
(***************************************************************************)
EXTENDS Integers, Sequences, FiniteSets, TLC

\* ---------------------------------------------------------------- bounds
NumProcs == 2        \* concurrent requests (connections)
MaxOps == 3          \* requests served in one behaviour
MaxHours == 1        \* whole hours the clock may advance
MaxSubTicks == 1     \* single ticks the clock may advance
MaxTtl == 1          \* largest expiry_hours a request carries
NumIps == 1          \* distinct client addresses
TicksPerSec == 2     \* clock resolution below the second

\* ------------------------------------------------------ program constants
SecsPerHour == 3600  \* timedelta(hours=...)
DigestSpace == 8     \* stand-in for the 2^128 values of an MD5 digest
CodeShift == 4       \* hexdigest()[:6] keeps the leading digits only
DefaultAccessCount == 0

TicksPerHour == SecsPerHour * TicksPerSec

Procs == 1..NumProcs
Urls == 1..3
Ttls == 0..MaxTtl
Ips == 1..NumIps

VARIABLES
  now,       \* datetime.utcnow(), in ticks
  urls,      \* committed rows of table urls, in rowid order
  logs,      \* committed rows of table logs, in rowid order
  lock,      \* the process holding the database write lock, or 0
  tx,        \* the open write transaction's working copy of both tables
  pc,        \* per process: the statement it executes next
  loc,       \* per process: the handler's arguments and local variables
  result,    \* per process: the response of the finished handler
  resolved,  \* history: per code, the redirect_url calls that returned a URL
  ops        \* requests the workers may still start

vars == <<now, urls, logs, lock, tx, pc, loc, result, resolved, ops>>

\* ------------------------------------------------------------- conversions
\* hashlib.md5(original_url.encode()): a fixed many-to-one function.
Md5(u) == (5 * u) % DigestSpace

\* generate_short_url: the leading digits of the digest.
generate_short_url(original_url) == Md5(original_url) \div CodeShift

Codes == {generate_short_url(u) : u \in Urls} \cup {DigestSpace}

\* t.strftime("%Y-%m-%d %H:%M:%S"): whole seconds, fraction dropped.
Strftime(t) == t \div TicksPerSec

\* datetime.strptime(s, "%Y-%m-%d %H:%M:%S"): the instant at the start of that second.
Strptime(s) == s * TicksPerSec

\* Variant: the clock is formatted like the stored timestamp before comparing.
is_expired_Formatted(t, expiration_time) == Strftime(t) > expiration_time

\* is_expired(expiration_time) evaluated when the clock reads t.
is_expired(t, expiration_time) == t > Strptime(expiration_time)

\* ------------------------------------------------------------------ tables
NoRow == [original_url |-> 0, short_url |-> -1, creation_time |-> 0,
          expiration_time |-> 0, access_count |-> 0]

NoTx == [urls |-> <<>>, logs |-> <<>>]

\* A handler's arguments and locals.  after, known, t0, count1 and count2 are
\* history: the workers whose shorten_url call (for a redirect_url request, also
\* those whose redirect_url call) had returned when this request started (and
\* who still hold that response), the codes stored when it started,
\* the clock at its first statement, and resolved[short_url] at each of
\* get_analytics' two reads.
NoLoc == [op |-> "none", original_url |-> 0, expiry_hours |-> 0,
          short_url |-> -1, ip |-> 0, expiration_time |-> 0, stamp |-> 0,
          row |-> NoRow, after |-> {}, known |-> {}, t0 |-> 0,
          count1 |-> 0, count2 |-> 0]

NoResult == [status |-> 0, short_url |-> -1, original_url |-> 0, access_count |-> 0,
             expiration_time |-> 0, logs |-> <<>>]

\* Rows of tbl whose short_url is code (WHERE short_url = ?).
RowsOf(tbl, code) == SelectSeq(tbl, LAMBDA r : r.short_url = code)

\* cursor.fetchone() of SELECT ... FROM urls WHERE short_url = ?
SelectUrl(tbl, code) ==
  IF RowsOf(tbl, code) = <<>> THEN NoRow ELSE Head(RowsOf(tbl, code))

\* Variant: column short_url declared without UNIQUE.
UniqueViolation_Off(tbl, code) == FALSE

\* short_url TEXT UNIQUE NOT NULL: would inserting code raise IntegrityError?
UniqueViolation(tbl, code) == RowsOf(tbl, code) # <<>>

\* INSERT INTO urls (original_url, short_url, creation_time, expiration_time)
NewUrlRow(original_url, short_url, creation_time, expiration_time) ==
  [original_url |-> original_url, short_url |-> short_url,
   creation_time |-> creation_time, expiration_time |-> expiration_time,
   access_count |-> DefaultAccessCount]

\* Variant: the UPDATE without its WHERE clause.
IncrementAccessCount_NoWhere(tbl, code) ==
  [i \in DOMAIN tbl |-> [tbl[i] EXCEPT !.access_count = @ + 1]]

\* UPDATE urls SET access_count = access_count + 1 WHERE short_url = ?
IncrementAccessCount(tbl, code) ==
  [i \in DOMAIN tbl |->
     IF tbl[i].short_url = code
     THEN [tbl[i] EXCEPT !.access_count = @ + 1]
     ELSE tbl[i]]

\* SELECT access_time, ip_address FROM logs WHERE short_url = ?
SelectLogs(lg, code) ==
  LET hit == SelectSeq(lg, LAMBDA e : e.short_url = code)
  IN [i \in DOMAIN hit |-> [access_time |-> hit[i].access_time,
                            ip_address |-> hit[i].ip_address]]

\* History helpers: the requests of shorten_url that have returned and still
\* hold their response, and the codes that have a row.
ReturnedShortens == {q \in Procs : pc[q] = "done" /\ loc[q].op = "shorten"}
ReturnedResolves == {q \in Procs : pc[q] = "done" /\ loc[q].op = "redirect"}

\* Worker p starts a request with locals l: its previous response is gone.
Begin(p, l) ==
  [q \in Procs |-> IF q = p THEN l ELSE [loc[q] EXCEPT !.after = @ \ {p}]]
StoredCodes == {urls[i].short_url : i \in DOMAIN urls}

\* -------------------------------------------------------------------- init
Init ==
  /\ now = 0
  /\ urls = <<>>
  /\ logs = <<>>
  /\ lock = 0
  /\ tx = NoTx
  /\ pc = [p \in Procs |-> "idle"]
  /\ loc = [p \in Procs |-> NoLoc]
  /\ result = [p \in Procs |-> NoResult]
  /\ resolved = [c \in Codes |-> 0]
  /\ ops = MaxOps

\* ------------------------------------------------------------------- clock
Tick ==
  /\ now % TicksPerHour < MaxSubTicks
  /\ now' = now + 1
  /\ UNCHANGED <<urls, logs, lock, tx, pc, loc, result, resolved, ops>>

HourPasses ==
  /\ now \div TicksPerHour < MaxHours
  /\ now' = now + TicksPerHour
  /\ UNCHANGED <<urls, logs, lock, tx, pc, loc, result, resolved, ops>>

\* ------------------------------------------------------------- shorten_url
\* lines 90-94: derive the code and compute expiration_time from the clock.
ShortenGenerate(p, u, h) ==
  /\ pc[p] \in {"idle", "done"}
  /\ ops > 0
  /\ ops' = ops - 1
  /\ loc' = Begin(p, [NoLoc EXCEPT !.op = "shorten",
                                  !.original_url = u,
                                  !.expiry_hours = h,
                                  !.short_url = generate_short_url(u),
                                  !.expiration_time = now + h * TicksPerHour,
                                  !.after = ReturnedShortens \ {p},
                                  !.t0 = now])
  /\ result' = [result EXCEPT ![p] = NoResult]
  /\ pc' = [pc EXCEPT ![p] = "s_args"]
  /\ UNCHANGED <<now, urls, logs, lock, tx, resolved>>

\* lines 104-109: the INSERT's parameters; creation_time reads the clock again.
ShortenStamp(p) ==
  /\ pc[p] = "s_args"
  /\ loc' = [loc EXCEPT ![p].stamp = Strftime(now),
                        ![p].expiration_time = Strftime(loc[p].expiration_time)]
  /\ pc' = [pc EXCEPT ![p] = "s_insert"]
  /\ UNCHANGED <<now, urls, logs, lock, tx, result, resolved, ops>>

\* Variant: INSERT OR REPLACE, the new row takes the place of the old one.
ShortenInsert_Replace(p) ==
  /\ pc[p] = "s_insert"
  /\ lock = 0
  /\ lock' = p
  /\ tx' = [urls |-> IF UniqueViolation(urls, loc[p].short_url)
                     THEN [i \in DOMAIN urls |->
                             IF urls[i].short_url = loc[p].short_url
                             THEN NewUrlRow(loc[p].original_url, loc[p].short_url,
                                            loc[p].stamp, loc[p].expiration_time)
                             ELSE urls[i]]
                     ELSE Append(urls, NewUrlRow(loc[p].original_url, loc[p].short_url,
                                                 loc[p].stamp, loc[p].expiration_time)),
            logs |-> logs]
  /\ pc' = [pc EXCEPT ![p] = "s_commit"]
  /\ UNCHANGED <<now, urls, logs, loc, result, resolved, ops>>

\* lines 98-112: INSERT INTO urls under the implicit transaction; an
\* IntegrityError of the UNIQUE constraint is swallowed by `pass`.
ShortenInsert(p) ==
  /\ pc[p] = "s_insert"
  /\ lock = 0
  /\ lock' = p
  /\ tx' = [urls |-> IF UniqueViolation(urls, loc[p].short_url)
                     THEN urls
                     ELSE Append(urls, NewUrlRow(loc[p].original_url, loc[p].short_url,
                                                 loc[p].stamp, loc[p].expiration_time)),
            logs |-> logs]
  /\ pc' = [pc EXCEPT ![p] = "s_commit"]
  /\ UNCHANGED <<now, urls, logs, loc, result, resolved, ops>>

\* lines 113-116: commit, close, return the short URL.
ShortenCommit(p) ==
  /\ pc[p] = "s_commit"
  /\ lock = p
  /\ urls' = tx.urls
  /\ logs' = tx.logs
  /\ lock' = 0
  /\ tx' = NoTx
  /\ result' = [result EXCEPT ![p] = [NoResult EXCEPT !.status = 200,
                                                      !.short_url = loc[p].short_url]]
  /\ pc' = [pc EXCEPT ![p] = "done"]
  /\ UNCHANGED <<now, loc, resolved, ops>>

\* ------------------------------------------------------------ redirect_url
\* Variant: a missing row is reported like an expired one.
RedirectSelect_Collapsed(p, code, ip) ==
  /\ pc[p] \in {"idle", "done"}
  /\ ops > 0
  /\ ops' = ops - 1
  /\ LET row == SelectUrl(urls, code)
         l == [NoLoc EXCEPT !.op = "redirect", !.short_url = code,
                            !.ip = ip, !.row = row,
                            !.after = (ReturnedShortens \cup ReturnedResolves) \ {p},
                            !.known = StoredCodes, !.t0 = now]
     IN /\ loc' = Begin(p, l)
        /\ IF row = NoRow
           THEN /\ pc' = [pc EXCEPT ![p] = "done"]
                /\ result' = [result EXCEPT ![p] = [NoResult EXCEPT !.status = 410]]
           ELSE /\ pc' = [pc EXCEPT ![p] = "r_expiry"]
                /\ result' = [result EXCEPT ![p] = NoResult]
  /\ UNCHANGED <<now, urls, logs, lock, tx, resolved>>

\* lines 130-141: SELECT the row; 404 when there is none.
RedirectSelect(p, code, ip) ==
  /\ pc[p] \in {"idle", "done"}
  /\ ops > 0
  /\ ops' = ops - 1
  /\ LET row == SelectUrl(urls, code)
         l == [NoLoc EXCEPT !.op = "redirect", !.short_url = code,
                            !.ip = ip, !.row = row,
                            !.after = (ReturnedShortens \cup ReturnedResolves) \ {p},
                            !.known = StoredCodes, !.t0 = now]
     IN /\ loc' = Begin(p, l)
        /\ IF row = NoRow
           THEN /\ pc' = [pc EXCEPT ![p] = "done"]
                /\ result' = [result EXCEPT ![p] = [NoResult EXCEPT !.status = 404]]
           ELSE /\ pc' = [pc EXCEPT ![p] = "r_expiry"]
                /\ result' = [result EXCEPT ![p] = NoResult]
  /\ UNCHANGED <<now, urls, logs, lock, tx, resolved>>

\* lines 143-147: 410 when is_expired(expiration_time).
RedirectCheckExpiry(p) ==
  /\ pc[p] = "r_expiry"
  /\ IF is_expired(now, loc[p].row.expiration_time)
     THEN /\ pc' = [pc EXCEPT ![p] = "done"]
          /\ result' = [result EXCEPT ![p] = [NoResult EXCEPT !.status = 410]]
     ELSE /\ pc' = [pc EXCEPT ![p] = "r_args"]
          /\ UNCHANGED result
  /\ UNCHANGED <<now, urls, logs, lock, tx, loc, resolved, ops>>

\* lines 154-158: the log INSERT's parameters; access_time reads the clock.
RedirectStamp(p) ==
  /\ pc[p] = "r_args"
  /\ loc' = [loc EXCEPT ![p].stamp = Strftime(now)]
  /\ pc' = [pc EXCEPT ![p] = "r_log"]
  /\ UNCHANGED <<now, urls, logs, lock, tx, result, resolved, ops>>

\* Variant: a failing log INSERT is swallowed and the handler carries on.
RedirectInsertLog_Swallow(p, ok) ==
  /\ pc[p] = "r_log"
  /\ lock = 0
  /\ lock' = p
  /\ tx' = [urls |-> urls,
            logs |-> IF ok
                     THEN Append(logs, [short_url |-> loc[p].short_url,
                                        access_time |-> loc[p].stamp,
                                        ip_address |-> loc[p].ip])
                     ELSE logs]
  /\ pc' = [pc EXCEPT ![p] = "r_update"]
  /\ UNCHANGED <<now, urls, logs, loc, result, resolved, ops>>

\* lines 149-159: INSERT INTO logs opens the transaction.  When the statement
\* raises (the store is unavailable) the exception leaves the handler: nothing
\* is committed and the request ends as a server error.
RedirectInsertLog(p, ok) ==
  /\ pc[p] = "r_log"
  /\ IF ok
     THEN /\ lock = 0
          /\ lock' = p
          /\ tx' = [urls |-> urls,
                    logs |-> Append(logs, [short_url |-> loc[p].short_url,
                                           access_time |-> loc[p].stamp,
                                           ip_address |-> loc[p].ip])]
          /\ pc' = [pc EXCEPT ![p] = "r_update"]
          /\ UNCHANGED result
     ELSE /\ pc' = [pc EXCEPT ![p] = "done"]
          /\ result' = [result EXCEPT ![p] = [NoResult EXCEPT !.status = 500]]
          /\ UNCHANGED <<lock, tx>>
  /\ UNCHANGED <<now, urls, logs, loc, resolved, ops>>

\* Variant: the counter is written from the value read at line 143.
RedirectUpdate_StaleWrite(p) ==
  /\ pc[p] = "r_update"
  /\ lock = p
  /\ tx' = [tx EXCEPT !.urls =
              [i \in DOMAIN tx.urls |->
                 IF tx.urls[i].short_url = loc[p].short_url
                 THEN [tx.urls[i] EXCEPT !.access_count = loc[p].row.access_count + 1]
                 ELSE tx.urls[i]]]
  /\ pc' = [pc EXCEPT ![p] = "r_commit"]
  /\ UNCHANGED <<now, urls, logs, lock, loc, result, resolved, ops>>

\* lines 161-168: UPDATE urls SET access_count = access_count + 1.
RedirectUpdate(p) ==
  /\ pc[p] = "r_update"
  /\ lock = p
  /\ tx' = [tx EXCEPT !.urls = IncrementAccessCount(tx.urls, loc[p].short_url)]
  /\ pc' = [pc EXCEPT ![p] = "r_commit"]
  /\ UNCHANGED <<now, urls, logs, lock, loc, result, resolved, ops>>

\* lines 169-172: commit, close, return the original URL read at line 143.
RedirectCommit(p) ==
  /\ pc[p] = "r_commit"
  /\ lock = p
  /\ urls' = tx.urls
  /\ logs' = tx.logs
  /\ lock' = 0
  /\ tx' = NoTx
  /\ result' = [result EXCEPT ![p] = [NoResult EXCEPT !.status = 200,
                                          !.original_url = loc[p].row.original_url]]
  /\ resolved' = [resolved EXCEPT ![loc[p].short_url] = @ + 1]
  /\ pc' = [pc EXCEPT ![p] = "done"]
  /\ UNCHANGED <<now, loc, ops>>

\* ----------------------------------------------------------- get_analytics
\* Variant: analytics refuses an expired code the way redirect_url does.
AnalyticsSelectUrl_ChecksExpiry(p, code) ==
  /\ pc[p] \in {"idle", "done"}
  /\ ops > 0
  /\ ops' = ops - 1
  /\ LET row == SelectUrl(urls, code)
         l == [NoLoc EXCEPT !.op = "analytics", !.short_url = code,
                            !.row = row, !.known = StoredCodes, !.t0 = now,
                            !.count1 = resolved[code]]
     IN /\ loc' = Begin(p, l)
        /\ IF row = NoRow \/ is_expired(now, row.expiration_time)
           THEN /\ pc' = [pc EXCEPT ![p] = "done"]
                /\ result' = [result EXCEPT ![p] =
                                [NoResult EXCEPT !.status = IF row = NoRow THEN 404 ELSE 410]]
           ELSE /\ pc' = [pc EXCEPT ![p] = "a_logs"]
                /\ result' = [result EXCEPT ![p] = NoResult]
  /\ UNCHANGED <<now, urls, logs, lock, tx, resolved>>

\* lines 185-196: SELECT the row; 404 when there is none.
AnalyticsSelectUrl(p, code) ==
  /\ pc[p] \in {"idle", "done"}
  /\ ops > 0
  /\ ops' = ops - 1
  /\ LET row == SelectUrl(urls, code)
         l == [NoLoc EXCEPT !.op = "analytics", !.short_url = code,
                            !.row = row, !.known = StoredCodes, !.t0 = now,
                            !.count1 = resolved[code]]
     IN /\ loc' = Begin(p, l)
        /\ IF row = NoRow
           THEN /\ pc' = [pc EXCEPT ![p] = "done"]
                /\ result' = [result EXCEPT ![p] = [NoResult EXCEPT !.status = 404]]
           ELSE /\ pc' = [pc EXCEPT ![p] = "a_logs"]
                /\ result' = [result EXCEPT ![p] = NoResult]
  /\ UNCHANGED <<now, urls, logs, lock, tx, resolved>>

\* Variant: the report counts itself as an access.
AnalyticsSelectLogs_Counts(p) ==
  /\ pc[p] = "a_logs"
  /\ lock = 0
  /\ urls' = IncrementAccessCount(urls, loc[p].short_url)
  /\ result' = [result EXCEPT ![p] =
                  [status |-> 200,
                   short_url |-> loc[p].short_url,
                   original_url |-> loc[p].row.original_url,
                   access_count |-> loc[p].row.access_count,
                   expiration_time |-> loc[p].row.expiration_time,
                   logs |-> SelectLogs(logs, loc[p].short_url)]]
  /\ loc' = [loc EXCEPT ![p].count2 = resolved[loc[p].short_url]]
  /\ pc' = [pc EXCEPT ![p] = "done"]
  /\ UNCHANGED <<now, logs, lock, tx, resolved, ops>>

\* lines 198-212: SELECT the code's log rows and build the report.
AnalyticsSelectLogs(p) ==
  /\ pc[p] = "a_logs"
  /\ result' = [result EXCEPT ![p] =
                  [status |-> 200,
                   short_url |-> loc[p].short_url,
                   original_url |-> loc[p].row.original_url,
                   access_count |-> loc[p].row.access_count,
                   expiration_time |-> loc[p].row.expiration_time,
                   logs |-> SelectLogs(logs, loc[p].short_url)]]
  /\ loc' = [loc EXCEPT ![p].count2 = resolved[loc[p].short_url]]
  /\ pc' = [pc EXCEPT ![p] = "done"]
  /\ UNCHANGED <<now, urls, logs, lock, tx, resolved, ops>>

\* -------------------------------------------------------------------- next
\* A worker that has delivered its response (done) takes the next request.
Next ==
  \/ Tick
  \/ HourPasses
  \/ \E p \in Procs, u \in Urls, h \in Ttls : ShortenGenerate(p, u, h)
  \/ \E p \in Procs : ShortenStamp(p)
  \/ \E p \in Procs : ShortenInsert(p)
  \/ \E p \in Procs : ShortenCommit(p)
  \/ \E p \in Procs, c \in Codes, ip \in Ips : RedirectSelect(p, c, ip)
  \/ \E p \in Procs : RedirectCheckExpiry(p)
  \/ \E p \in Procs : RedirectStamp(p)
  \/ \E p \in Procs, ok \in BOOLEAN : RedirectInsertLog(p, ok)
  \/ \E p \in Procs : RedirectUpdate(p)
  \/ \E p \in Procs : RedirectCommit(p)
  \/ \E p \in Procs, c \in Codes : AnalyticsSelectUrl(p, c)
  \/ \E p \in Procs : AnalyticsSelectLogs(p)

Spec == Init /\ [][Next]_vars

\* ------------------------------------------------- one link, one more request
\* The same handlers serving one more request, all for one URL and its code.
LongUrls == {1}
LongTtls == {MaxTtl}
LongCodes == {generate_short_url(u) : u \in LongUrls}

InitLong ==
  /\ now = 0
  /\ urls = <<>>
  /\ logs = <<>>
  /\ lock = 0
  /\ tx = NoTx
  /\ pc = [p \in Procs |-> "idle"]
  /\ loc = [p \in Procs |-> NoLoc]
  /\ result = [p \in Procs |-> NoResult]
  /\ resolved = [c \in Codes |-> 0]
  /\ ops = MaxOps + 1

NextLong ==
  \/ Tick
  \/ HourPasses
  \/ \E p \in Procs, u \in LongUrls, h \in LongTtls : ShortenGenerate(p, u, h)
  \/ \E p \in Procs : ShortenStamp(p)
  \/ \E p \in Procs : ShortenInsert(p)
  \/ \E p \in Procs : ShortenCommit(p)
  \/ \E p \in Procs, c \in LongCodes, ip \in Ips : RedirectSelect(p, c, ip)
  \/ \E p \in Procs : RedirectCheckExpiry(p)
  \/ \E p \in Procs : RedirectStamp(p)
  \/ \E p \in Procs, ok \in BOOLEAN : RedirectInsertLog(p, ok)
  \/ \E p \in Procs : RedirectUpdate(p)
  \/ \E p \in Procs : RedirectCommit(p)
  \/ \E p \in Procs, c \in LongCodes : AnalyticsSelectUrl(p, c)
  \/ \E p \in Procs : AnalyticsSelectLogs(p)

SpecLong == InitLong /\ [][NextLong]_vars

\* ================================================================== claims
Done(p, op) == pc[p] = "done" /\ loc[p].op = op

\* What the create call of worker p promised: its clock reading plus the TTL.
PromisedUntil(p) == loc[p].t0 + loc[p].expiry_hours * TicksPerHour

RowIndexes(code) == {i \in DOMAIN urls : urls[i].short_url = code}
LogIndexes(code) == {i \in DOMAIN logs : logs[i].short_url = code}

\* C1: a resolve that starts after create(u, ttl) returned code c, and that has
\* ended while now < (the create's now) + ttl, returns exactly u (a resolve cut
\* short by a failing log append, the subject of C10, is left aside).
C1_RoundTrip ==
  \A p, q \in Procs :
    ( /\ Done(p, "shorten") /\ Done(q, "redirect")
      /\ p \in loc[q].after
      /\ loc[q].short_url = result[p].short_url
      /\ now < PromisedUntil(p)
      /\ result[q].status # 500 )
    => /\ result[q].status = 200
       /\ result[q].original_url = loc[p].original_url

\* C2: two creates of distinct URLs return distinct codes, and the record stored
\* under the code a create returned holds that create's own URL.
C2_CollisionHandled ==
  /\ \A p, q \in Procs :
       ( /\ Done(p, "shorten") /\ Done(q, "shorten")
         /\ loc[p].original_url # loc[q].original_url )
       => result[p].short_url # result[q].short_url
  /\ \A p \in Procs :
       Done(p, "shorten") =>
         \A i \in RowIndexes(result[p].short_url) :
           urls[i].original_url = loc[p].original_url

\* C3: two creates of the same URL return the same code, and the store then
\* holds exactly one record for that URL.
C3_Idempotent ==
  \A p, q \in Procs :
    ( /\ p # q /\ Done(p, "shorten") /\ Done(q, "shorten")
      /\ loc[p].original_url = loc[q].original_url )
    => /\ result[p].short_url = result[q].short_url
       /\ Cardinality({i \in DOMAIN urls :
                         urls[i].original_url = loc[p].original_url}) = 1
\* The code's log entries as get_analytics reports them, in rowid order.
CodeLog(code) == SelectSeq(logs, LAMBDA e : e.short_url = code)

\* C4: resolutions of one code never lose an update: the code's access_count
\* equals the number of resolutions that returned its URL, and two resolutions
\* that both read the same access_count and both succeeded leave the counter
\* at least two above the value they read.
C4_NoLostUpdates ==
  \A c \in Codes :
    /\ \A i \in RowIndexes(c) : urls[i].access_count = resolved[c]
    /\ \A p, q \in Procs :
         ( /\ p # q
           /\ Done(p, "redirect") /\ Done(q, "redirect")
           /\ loc[p].short_url = c /\ loc[q].short_url = c
           /\ result[p].status = 200 /\ result[q].status = 200
           /\ loc[p].row.access_count = loc[q].row.access_count )
         => \A i \in RowIndexes(c) :
              urls[i].access_count >= loc[p].row.access_count + 2

C4_Witness ==
  \E p, q \in Procs :
    /\ p # q
    /\ Done(p, "redirect") /\ Done(q, "redirect")
    /\ loc[p].short_url = loc[q].short_url
    /\ result[p].status = 200 /\ result[q].status = 200
    /\ loc[p].row.access_count = loc[q].row.access_count
    /\ \E i \in RowIndexes(loc[p].short_url) :
         urls[i].access_count = loc[p].row.access_count + 2

\* C5: a resolve of an existing code that starts when now > expires_at ends
\* with Expired (410) and no URL, and the step that ends it with Expired leaves
\* both tables (and any open transaction) unchanged.
C5_ExpiredFails ==
  /\ [](\A p \in Procs :
          ( /\ Done(p, "redirect")
            /\ loc[p].row # NoRow
            /\ loc[p].t0 > loc[p].row.expiration_time * TicksPerSec )
          => /\ result[p].status = 410
             /\ result[p].original_url = NoResult.original_url)
  /\ [][\A p \in Procs :
          (pc[p] = "r_expiry" /\ pc'[p] = "done" /\ result'[p].status = 410)
          => (urls' = urls /\ logs' = logs /\ tx' = tx)]_vars

C5_Witness ==
  \E p \in Procs :
    /\ Done(p, "redirect")
    /\ loc[p].row # NoRow
    /\ loc[p].t0 > loc[p].row.expiration_time * TicksPerSec
    /\ result[p].status = 410

\* C6: report(code) succeeds exactly when the code had a record when the call
\* started, expired or not; it returns the record's original_url and expires_at,
\* the access_count current at its read of the record, and all the code's log
\* entries present at its read of the log.
C6_AnalyticsSurviveExpiry ==
  \A p \in Procs :
    Done(p, "analytics") =>
      LET c == loc[p].short_url
          r == result[p]
      IN /\ r.status \in {200, 404}
         /\ (r.status = 404) <=> (c \notin loc[p].known)
         /\ (r.status = 200) =>
              /\ \E i \in RowIndexes(c) :
                   /\ urls[i].original_url = r.original_url
                   /\ urls[i].expiration_time = r.expiration_time
              /\ r.access_count = loc[p].count1
              /\ Len(r.logs) = loc[p].count2
              /\ Len(r.logs) <= Len(CodeLog(c))
              /\ \A k \in DOMAIN r.logs :
                   /\ r.logs[k].access_time = CodeLog(c)[k].access_time
                   /\ r.logs[k].ip_address = CodeLog(c)[k].ip_address

C6_Witness ==
  \E p \in Procs :
    /\ Done(p, "analytics")
    /\ result[p].status = 200
    /\ loc[p].t0 > result[p].expiration_time * TicksPerSec
    /\ Len(result[p].logs) >= 1

\* C7: in every committed state, for every code, the number of log entries, the
\* access_count of its record and the number of successful resolutions agree
\* (0, 0 and 0 for a fresh record; no entries and no resolutions without a record).
C7_CounterMatchesLog ==
  \A c \in Codes :
    /\ Cardinality(LogIndexes(c)) = resolved[c]
    /\ \A i \in RowIndexes(c) : urls[i].access_count = Cardinality(LogIndexes(c))
    /\ (RowIndexes(c) = {}) => (LogIndexes(c) = {})

C7_Witness ==
  \E p \in Procs :
    /\ Done(p, "analytics")
    /\ result[p].status = 200
    /\ result[p].access_count = 1
    /\ Len(result[p].logs) = 1
    /\ resolved[loc[p].short_url] = 1

\* C8: creates of the same URL that raced all return the same code with no
\* error, and exactly one record for that code is stored.
C8_AtomicCreate ==
  \A p, q \in Procs :
    ( /\ p # q
      /\ Done(p, "shorten") /\ Done(q, "shorten")
      /\ loc[p].original_url = loc[q].original_url )
    => /\ result[p].status = 200 /\ result[q].status = 200
       /\ result[p].short_url = result[q].short_url
       /\ Cardinality(RowIndexes(result[p].short_url)) = 1

C8_Witness ==
  \E p, q \in Procs :
    /\ p # q
    /\ Done(p, "shorten") /\ Done(q, "shorten")
    /\ loc[p].original_url = loc[q].original_url
    /\ p \notin loc[q].after /\ q \notin loc[p].after
    /\ Cardinality(RowIndexes(result[p].short_url)) = 1

\* C9: a resolve of a code that had no record when it started ends with
\* NotFound (404, not 410) and no URL, and the step that ends a request with 404
\* leaves both tables (and any open transaction) unchanged.
C9_UnknownNotFound ==
  /\ [](\A p \in Procs :
          (Done(p, "redirect") /\ loc[p].short_url \notin loc[p].known)
          => /\ result[p].status = 404
             /\ result[p].original_url = NoResult.original_url)
  /\ [][(\E p \in Procs :
           ops' # ops /\ pc'[p] = "done" /\ result'[p].status = 404)
        => (urls' = urls /\ logs' = logs /\ tx' = tx)]_vars

C9_Witness ==
  \E p \in Procs :
    /\ Done(p, "redirect")
    /\ loc[p].short_url \notin loc[p].known
    /\ loc[p].known # {}
    /\ result[p].status = 404

\* C10: a resolve of an existing code that is not expired returns the original
\* URL whether or not its log append fails.
C10_LogFailureKeepsResolution ==
  \A p \in Procs :
    ( /\ Done(p, "redirect")
      /\ loc[p].row # NoRow
      /\ result[p].status # 410 )
    => /\ result[p].status = 200
       /\ result[p].original_url = loc[p].row.original_url
\* C11: the entries a report returns are in chronological order: their
\* access_time never decreases along the sequence.
C11_ReportChronological ==
  \A p \in Procs :
    (Done(p, "analytics") /\ result[p].status = 200)
    => \A k \in DOMAIN result[p].logs :
         k + 1 \in DOMAIN result[p].logs
         => result[p].logs[k].access_time <= result[p].logs[k + 1].access_time

\* C12: a create whose candidate code is held by a record of a different URL
\* does not return that code as a success: it stores its URL under another
\* code or it fails (GenerationExhausted).
C12_BoundedRetry ==
  \A p \in Procs :
    ( /\ Done(p, "shorten")
      /\ \E i \in DOMAIN urls :
           /\ urls[i].short_url = generate_short_url(loc[p].original_url)
           /\ urls[i].original_url # loc[p].original_url )
    => \/ result[p].status # 200
       \/ result[p].short_url # generate_short_url(loc[p].original_url)

\* C13: no two records of the store have the same code.
C13_CodeUnique ==
  \A i, j \in DOMAIN urls :
    i # j => urls[i].short_url # urls[j].short_url

C13_Witness ==
  /\ Len(urls) = 2
  /\ \E p \in Procs :
       /\ Done(p, "shorten")
       /\ \A i \in DOMAIN urls : urls[i].original_url # loc[p].original_url

\* C14: every log entry's code has a record, and the entry's access_time is not
\* after that record's expiration_time.
C14_LogValid ==
  \A i \in DOMAIN logs :
    \E j \in DOMAIN urls :
      /\ urls[j].short_url = logs[i].short_url
      /\ logs[i].access_time <= urls[j].expiration_time
\* C15: access_count is never negative, a new record starts at 0, and a stored
\* record's access_count changes only by growing, in the step in which a
\* resolve of that record's code commits and returns the URL.
C15_CounterMonotone ==
  /\ [](\A i \in DOMAIN urls : urls[i].access_count >= 0)
  /\ [][\A i \in DOMAIN urls' :
          IF i \in DOMAIN urls
          THEN /\ urls'[i].access_count >= urls[i].access_count
               /\ (urls'[i].access_count # urls[i].access_count)
                  => \E p \in Procs :
                       /\ pc[p] = "r_commit" /\ pc'[p] = "done"
                       /\ loc[p].op = "redirect"
                       /\ loc[p].short_url = urls[i].short_url
                       /\ result'[p].status = 200
          ELSE urls'[i].access_count = 0]_vars

C15_Witness ==
  \E i \in DOMAIN urls :
    /\ urls[i].access_count = 1
    /\ \E p \in Procs :
         /\ Done(p, "redirect")
         /\ loc[p].short_url = urls[i].short_url
         /\ loc[p].row.access_count = 1
         /\ result[p].status \in {410, 500}

\* C16: no step removes a stored record or changes its code, original_url,
\* creation_time or expiration_time.
C16_RecordImmutable ==
  [][\A i \in DOMAIN urls :
       /\ i \in DOMAIN urls'
       /\ urls'[i].short_url = urls[i].short_url
       /\ urls'[i].original_url = urls[i].original_url
       /\ urls'[i].creation_time = urls[i].creation_time
       /\ urls'[i].expiration_time = urls[i].expiration_time]_vars

C16_Witness ==
  \E p \in Procs :
    /\ Done(p, "shorten")
    /\ \E i \in DOMAIN urls :
         /\ urls[i].short_url = result[p].short_url
         /\ urls[i].original_url # loc[p].original_url
         /\ urls[i].access_count >= 1

\* C17: every stored record's expiration_time is after its creation_time.
C17_ExpiresAfterCreation ==
  \A i \in DOMAIN urls : urls[i].expiration_time > urls[i].creation_time

\* C18 (first half): a resolve that starts after a resolve of the same code has
\* ended with Expired ends with Expired too.
C18_OneWay ==
  \A p, q \in Procs :
    ( /\ Done(p, "redirect") /\ Done(q, "redirect")
      /\ p \in loc[q].after
      /\ loc[p].short_url = loc[q].short_url
      /\ result[p].status = 410 )
    => result[q].status = 410

C18_OneWayWitness ==
  \E p, q \in Procs :
    /\ Done(p, "redirect") /\ Done(q, "redirect")
    /\ p \in loc[q].after
    /\ loc[p].short_url = loc[q].short_url
    /\ result[p].status = 410 /\ result[q].status = 410

\* C18 (second half, as far as the expiry check goes): a resolve of a stored
\* code made while the clock reads exactly expires_at is not refused as Expired.
C18_BoundaryNotExpired ==
  \A q \in Procs :
    ( /\ Done(q, "redirect")
      /\ loc[q].row # NoRow
      /\ loc[q].t0 = loc[q].row.expiration_time * TicksPerSec
      /\ now = loc[q].t0 )
    => result[q].status \in {200, 500}

\* C18: expiry is one-way, and a resolve made while the clock reads exactly
\* expires_at succeeds.
C18_OneWayExpiry ==
  /\ C18_OneWay
  /\ \A q \in Procs :
       ( /\ Done(q, "redirect")
         /\ loc[q].row # NoRow
         /\ loc[q].t0 = loc[q].row.expiration_time * TicksPerSec
         /\ now = loc[q].t0 )
       => /\ result[q].status = 200
          /\ result[q].original_url = loc[q].row.original_url

\* C19: no step of get_analytics, whether it ends with the report or with 404,
\* changes a record, the log, an open transaction or the write lock.
C19_AnalyticsReadOnly ==
  [][( \/ (ops' # ops /\ \E p \in Procs : loc'[p].op = "analytics")
       \/ \E p \in Procs : pc[p] = "a_logs" /\ pc'[p] = "done" )
     => (urls' = urls /\ logs' = logs /\ tx' = tx /\ lock' = lock)]_vars

C19_Witness ==
  \E p \in Procs :
    /\ Done(p, "analytics") /\ result[p].status = 200
    /\ Len(logs) >= 1
    /\ Len(result[p].logs) = Len(logs)
    /\ \E i \in RowIndexes(loc[p].short_url) :
         urls[i].access_count = result[p].access_count

\* C20: a resolve that starts after create(u, ttl > 0) returned its code, with
\* the clock still where the create read it, fails neither with Expired nor
\* with NotFound.
C20_FreshLinkIsLive ==
  \A p, q \in Procs :
    ( /\ Done(p, "shorten") /\ Done(q, "redirect")
      /\ p \in loc[q].after
      /\ loc[q].short_url = result[p].short_url
      /\ loc[p].expiry_hours > 0
      /\ now = loc[p].t0 )
    => result[q].status \notin {404, 410}
====
